---------------------------- MODULE Spec2Model ----------------------------
(***************************************************************************)
(* Model of github.com/keep94/mailmerge: package merge (merge/merge.go)    *)
(* and the mailmerge command's identifier check.                           *)
(*                                                                         *)
(* A Go string is a sequence of one-character strings, so that the CSV     *)
(* writer and reader can be modelled character by character.  A CsvRow     *)
(* (map[string]string) is a function whose DOMAIN is the set of keys.  A   *)
(* CsvFile is a record [Headers, Rows].  An EmailSet is a set of strings.  *)
(***************************************************************************)
EXTENDS Integers, Sequences, FiniteSets, TLC

VARIABLES
    text,   \* what the reader given to readCsv has yet to deliver
    lines,  \* the lines text was composed of, each a sequence of fields
    pc,     \* "start", "loaded", "failed"; "table", "written", "reread";
            \* in main: "main", "going", "filter", "loop", "await", "done",
            \* "exit1"
    file,   \* the current *CsvFile (NoFile when there is none)
    err,    \* the error returned by the last operation (NoErr = nil)
    prev,   \* the receiver of the last CsvFile operation
    op,     \* the name of the last operation
    arg,    \* the EmailSet argument of the last operation
    orig,   \* the CsvFile as it was loaded (or drawn)
    out,    \* what write has written
    applied, \* whether WithNotGoing has been applied since the load
    fEmails,   \* main: the -emails flag
    fNoEmails, \* main: the -noemails flag
    fIndex,    \* main: the -index flag
    index,     \* main: the position of the send loop in csvFile.Rows
    sent       \* main: the rows handed to sender.SendFuture, in order

flags == <<fEmails, fNoEmails, fIndex>>

run == <<flags, index, sent>>

vars == <<text, lines, pc, file, err, prev, op, arg, orig, out, applied, run>>

---------------------------------------------------------------------------
(* Characters and strings.                                                 *)

LF == "\n"
CR == "\r"
DQ == "\""
Comma == ","
SP == " "

EmptyStr == <<>>

\* Byte values of the characters the model uses (sort.Strings compares bytes).
Code(c) ==
    CASE c = LF -> 10
      [] c = CR -> 13
      [] c = SP -> 32
      [] c = DQ -> 34
      [] c = Comma -> 44
      [] c = ":" -> 58
      [] c = "N" -> 78
      [] c = "Y" -> 89
      [] c = "a" -> 97
      [] c = "b" -> 98
      [] c = "c" -> 99
      [] c = "d" -> 100
      [] c = "e" -> 101
      [] c = "g" -> 103
      [] c = "i" -> 105
      [] c = "l" -> 108
      [] c = "m" -> 109
      [] c = "n" -> 110
      [] c = "o" -> 111
      [] c = "p" -> 112
      [] c = "x" -> 120
      [] c = "y" -> 121
      [] c = "z" -> 122

\* strings.ToLower on one character.
ToLowerCh(c) == IF Code(c) >= 65 /\ Code(c) <= 90 THEN
                    CASE c = "N" -> "n" [] c = "Y" -> "y"
                ELSE c

ToLower(s) == [i \in 1..Len(s) |-> ToLowerCh(s[i])]

HasPrefix(s, p) == Len(s) >= Len(p) /\ SubSeq(s, 1, Len(p)) = p

\* Go's s < t on strings: bytewise lexicographic.
RECURSIVE StrLess(_, _)
StrLess(s, t) ==
    IF t = <<>> THEN FALSE
    ELSE IF s = <<>> THEN TRUE
    ELSE IF Code(Head(s)) # Code(Head(t)) THEN Code(Head(s)) < Code(Head(t))
    ELSE StrLess(Tail(s), Tail(t))

Range(f) == {f[i] : i \in DOMAIN f}

---------------------------------------------------------------------------
(* merge.go: constants, CsvRow.                                            *)

Name == <<"n", "a", "m", "e">>
Email == <<"e", "m", "a", "i", "l">>
Going == <<"g", "o", "i", "n", "g">>

\* c[key] on a Go map: the zero value "" when the key is absent.
Get(row, key) == IF key \in DOMAIN row THEN row[key] ELSE EmptyStr

RowName(c) == Get(c, Name)

RowEmail(c) == Get(c, Email)

RowGoingCaseSensitive(c) == ~HasPrefix(Get(c, Going), <<"n">>)
RowGoing(c) == ~HasPrefix(ToLower(Get(c, Going)), <<"n">>)

RowWithNotGoingClears(c) ==
    [k \in DOMAIN c \cup {Going} |-> IF k = Going THEN <<"n">> ELSE EmptyStr]
RowWithNotGoing(c) ==
    [k \in DOMAIN c \cup {Going} |-> IF k = Going THEN <<"n">> ELSE c[k]]

---------------------------------------------------------------------------
(* merge.go: EmailSet.                                                     *)

Contains(e, email) == email \in e

Difference(e, other) == {email \in e : ~Contains(other, email)}

\* sort.Strings: the ascending arrangement of the slice.
RECURSIVE SortStrings(_)
SortStrings(S) ==
    IF S = {} THEN <<>>
    ELSE CHOOSE s \in { <<m>> \o SortStrings(S \ {m}) :
                        m \in {x \in S : \A y \in S \ {x} : StrLess(x, y)} } : TRUE

\* strings.Join
RECURSIVE Join(_, _)
Join(elems, sep) ==
    IF elems = <<>> THEN <<>>
    ELSE IF Len(elems) = 1 THEN elems[1]
    ELSE elems[1] \o sep \o Join(Tail(elems), sep)

\* An arrangement of the set in map iteration order (here: descending).
RECURSIVE Unsorted(_)
Unsorted(S) ==
    IF S = {} THEN <<>>
    ELSE CHOOSE s \in { Unsorted(S \ {m}) \o <<m>> :
                        m \in {x \in S : \A y \in S \ {x} : StrLess(x, y)} } : TRUE

EmailSetStringUnsorted(e) == Join(Unsorted(e), <<Comma, SP>>)
EmailSetString(e) == Join(SortStrings(e), <<Comma, SP>>)

---------------------------------------------------------------------------
(* merge.go: CsvFile.                                                      *)

NoFile == [Headers |-> <<"nil">>, Rows |-> <<"nil">>]

CsvFile(headers, rows) == [Headers |-> headers, Rows |-> rows]

\* The loop of sel over rows, f being the closure as a function on rows.
RECURSIVE selRows(_, _)
selRows(rows, f) ==
    IF rows = <<>> THEN <<>>
    ELSE (IF f[Head(rows)] THEN <<Head(rows)>> ELSE <<>>)
             \o selRows(Tail(rows), f)

selKeepsFirst(c, f) ==
    CsvFile(c.Headers, IF c.Rows = <<>> THEN <<>>
                       ELSE <<Head(c.Rows)>> \o selRows(Tail(c.Rows), f))
sel(c, f) == CsvFile(c.Headers, selRows(c.Rows, f))

SelectEmails(c, emails) ==
    sel(c, [row \in Range(c.Rows) |-> Contains(emails, RowEmail(row))])

SelectNoEmails(c, emails) ==
    sel(c, [row \in Range(c.Rows) |-> ~Contains(emails, RowEmail(row))])

SelectGoingKeepsAll(c) == c

SelectGoing(c) == sel(c, [row \in Range(c.Rows) |-> RowGoing(row)])

AsEmailSet(c) == {RowEmail(c.Rows[i]) : i \in 1..Len(c.Rows)}

\* slices.Contains
SliceContains(s, v) == \E i \in 1..Len(s) : s[i] = v

addGoingHeaderAlways(headers) == headers \o <<Going>>
addGoingHeader(headers) ==
    IF SliceContains(headers, Going) THEN headers ELSE headers \o <<Going>>

WithNotGoingNoHeader(c) ==
    CsvFile(c.Headers, [i \in 1..Len(c.Rows) |-> RowWithNotGoing(c.Rows[i])])
WithNotGoing(c) ==
    CsvFile(addGoingHeader(c.Headers),
            [i \in 1..Len(c.Rows) |-> RowWithNotGoing(c.Rows[i])])

---------------------------------------------------------------------------
(* encoding/csv as merge.go uses it: csv.NewWriter(w) with the default     *)
(* Comma ',' and UseCRLF false; csv.NewReader(r) with the default Comma,   *)
(* no Comment, FieldsPerRecord 0, LazyQuotes and TrimLeadingSpace false.   *)

SeqContains(s, c) == \E i \in 1..Len(s) : s[i] = c

\* unicode.IsSpace on the model's characters.
IsSpace(c) == c \in {SP, LF, CR}

\* Writer.fieldNeedsQuotes
fieldNeedsQuotes(field) ==
    IF field = EmptyStr THEN FALSE
    ELSE \/ \E i \in 1..Len(field) : field[i] \in {LF, CR, DQ, Comma}
         \/ IsSpace(field[1])

\* The body of a quoted field: a quote is doubled, CR and LF are copied.
RECURSIVE quoteBody(_)
quoteBody(field) ==
    IF field = <<>> THEN <<>>
    ELSE (IF Head(field) = DQ THEN <<DQ, DQ>> ELSE <<Head(field)>>)
             \o quoteBody(Tail(field))

writeField(field) ==
    IF fieldNeedsQuotes(field) THEN <<DQ>> \o quoteBody(field) \o <<DQ>>
    ELSE field

\* Writer.Write: the fields joined by the comma, then a newline.
csvWriterWrite(record) ==
    Join([i \in 1..Len(record) |-> writeField(record[i])], <<Comma>>) \o <<LF>>

RECURSIVE Concat(_)
Concat(ss) == IF ss = <<>> THEN <<>> ELSE Head(ss) \o Concat(Tail(ss))

\* CsvFile.write with a writer that never fails: the text written.
writeReversed(c) ==
    csvWriterWrite(c.Headers) \o
    Concat([i \in 1..Len(c.Rows) |->
              csvWriterWrite([j \in 1..Len(c.Headers) |->
                                Get(c.Rows[Len(c.Rows) + 1 - i], c.Headers[j])])])
write(c) ==
    csvWriterWrite(c.Headers) \o
    Concat([i \in 1..Len(c.Rows) |->
              csvWriterWrite([j \in 1..Len(c.Headers) |->
                                Get(c.Rows[i], c.Headers[j])])])

\* Errors.  kind: "nil" | "EOF" | "ParseError" | "Line" | "Unrecognized".
Error(kind, line, msg) == [kind |-> kind, line |-> line, msg |-> msg]

NoErr == Error("nil", 0, <<>>)

ErrEOF == Error("EOF", 0, <<>>)

\* &ParseError{StartLine: recLine, ..., Err: e}
ParseError(line, e) == Error("ParseError", line, e)

\* The element of a one-element set.  The({F(x) : x \in {e}}) is F(e) with e
\* evaluated once, however often F uses it.
The(S) == CHOOSE x \in S : TRUE

\* The offset of the first c in s at or after offset from, 0 when none.
IndexFrom(s, c, from) ==
    IF \E i \in from..Len(s) : s[i] = c
    THEN CHOOSE i \in from..Len(s) : s[i] = c /\ \A j \in from..(i - 1) : s[j] # c
    ELSE 0

lengthNL(line) == IF line # <<>> /\ line[Len(line)] = LF THEN 1 ELSE 0

\* readLine: "drop trailing \r before EOF".
dropCR(raw, atEOF) ==
    IF atEOF /\ raw[Len(raw)] = CR THEN SubSeq(raw, 1, Len(raw) - 1) ELSE raw

\* readLine: "Normalize \r\n to \n on all input lines."
normalizeCRLF(line) ==
    IF Len(line) >= 2 /\ line[Len(line) - 1] = CR /\ line[Len(line)] = LF
    THEN SubSeq(line, 1, Len(line) - 2) \o <<LF>> ELSE line

\* Reader.readLine at offset pos of the input: the line with its newline;
\* eof when nothing is left.
readLine(txt, pos) ==
    IF pos > Len(txt) THEN [line |-> <<>>, next |-> pos, eof |-> TRUE]
    ELSE The({ The({ [line |-> normalizeCRLF(cut),
                      next |-> (IF nl = 0 THEN Len(txt) ELSE nl) + 1,
                      eof |-> FALSE] :
                     cut \in {dropCR(SubSeq(txt, pos,
                                            IF nl = 0 THEN Len(txt) ELSE nl),
                                     nl = 0)} }) :
               nl \in {IndexFrom(txt, LF, pos)} })

\* The first loop of readRecord: skip empty lines.  numLine counts readLine calls.
RECURSIVE skipEmpty(_, _, _)
skipEmpty(txt, pos, numLine) ==
    The({ IF r.eof THEN [line |-> <<>>, next |-> r.next, eof |-> TRUE,
                         numLine |-> numLine + 1]
          ELSE IF Len(r.line) = lengthNL(r.line)
          THEN The({ skipEmpty(txt, p, n) : p \in {r.next}, n \in {numLine + 1} })
          ELSE [line |-> r.line, next |-> r.next, eof |-> FALSE,
                numLine |-> numLine + 1] :
          r \in {readLine(txt, pos)} })

\* The result of the parseField loop: the fields and the error of the record,
\* the offset of the next line, the number of lines read.
Parsed(fields, perr, st) ==
    [fields |-> fields, perr |-> perr, next |-> st.next, numLine |-> st.numLine]

\* The parseField loop of readRecord.  st: line (what is left of the current
\* line), next (offset of the next line), numLine, fields (parsed so far).
RECURSIVE parseField(_, _)
RECURSIVE parseQuoted(_, _, _)
parseField(txt, st) ==
    IF st.line = <<>> \/ st.line[1] # DQ THEN
        The({ The({ IF SeqContains(field, DQ)
                    THEN Parsed(st.fields, "ErrBareQuote", st)
                    ELSE IF i > 0
                    THEN The({ parseField(txt, st2) :
                               st2 \in {[st EXCEPT
                                   !.line = SubSeq(st.line, i + 1, Len(st.line)),
                                   !.fields = Append(st.fields, field)]} })
                    ELSE Parsed(Append(st.fields, field), "", st) :
                    field \in {IF i > 0 THEN SubSeq(st.line, 1, i - 1)
                               ELSE SubSeq(st.line, 1,
                                           Len(st.line) - lengthNL(st.line))} }) :
              i \in {IndexFrom(st.line, Comma, 1)} })
    ELSE The({ parseQuoted(txt, st2, buf) :
               st2 \in {[st EXCEPT !.line = Tail(st.line)]}, buf \in {<<>>} })

\* The loop of a quoted field: buf is the field so far.
parseQuoted(txt, st, buf) ==
    The({ IF i > 0 THEN
              The({ IF rest # <<>> /\ rest[1] = DQ
                    THEN The({ parseQuoted(txt, st2, buf2) :
                               st2 \in {[st EXCEPT !.line = Tail(rest)]},
                               buf2 \in {Append(got, DQ)} })
                    ELSE IF rest # <<>> /\ rest[1] = Comma
                    THEN The({ parseField(txt, st2) :
                               st2 \in {[st EXCEPT !.line = Tail(rest),
                                            !.fields = Append(st.fields, got)]} })
                    ELSE IF lengthNL(rest) = Len(rest)
                    THEN Parsed(Append(st.fields, got), "", st)
                    ELSE Parsed(st.fields, "ErrQuote", st) :
                    got \in {buf \o SubSeq(st.line, 1, i - 1)},
                    rest \in {SubSeq(st.line, i + 1, Len(st.line))} })
          ELSE IF Len(st.line) > 0 THEN
              The({ The({ parseQuoted(txt, st2, buf2) :
                          st2 \in {[st EXCEPT !.line = r.line, !.next = r.next,
                                       !.numLine = st.numLine + 1]},
                          buf2 \in {buf \o st.line} }) :
                    r \in {readLine(txt, st.next)} })
          ELSE Parsed(st.fields, "ErrQuote", st) :
          i \in {IndexFrom(st.line, DQ, 1)} })

\* readRecord: "Check or update the expected fields per record."
fieldCountError(rd, p, recLine) ==
    IF p.perr # "" THEN ParseError(recLine, p.perr)
    ELSE IF rd.fpr > 0 /\ Len(p.fields) # rd.fpr
    THEN ParseError(recLine, "ErrFieldCount")
    ELSE NoErr

\* Reader.Read on the reader state rd = [pos, numLine, fpr]:
\* [rec, err, line (what FieldPos(0) reports), rd (the reader afterwards)].
csvReaderRead(txt, rd) ==
    The({ IF s.eof THEN [rec |-> <<>>, err |-> ErrEOF, line |-> 0,
                         rd |-> [rd EXCEPT !.pos = s.next, !.numLine = s.numLine]]
          ELSE The({ [rec |-> p.fields,
                      err |-> fieldCountError(rd, p, s.numLine),
                      line |-> s.numLine,
                      rd |-> [pos |-> p.next, numLine |-> p.numLine,
                              fpr |-> IF rd.fpr = 0 THEN Len(p.fields)
                                      ELSE rd.fpr]] :
                     p \in {The({ parseField(txt, st) :
                                  st \in {[line |-> s.line, next |-> s.next,
                                           numLine |-> s.numLine,
                                           fields |-> <<>>]} })} }) :
          s \in {skipEmpty(txt, rd.pos, rd.numLine)} })

\* csv.NewReader(r)
NewReader == [pos |-> 1, numLine |-> 0, fpr |-> 0]

---------------------------------------------------------------------------
(* merge.go: readCsv.                                                      *)

\* A run-time panic (index out of range) reported in place of a result.
Panic == [panic |-> TRUE]

\* result[colName] = row[index] for every header: a later column of the same
\* name overwrites an earlier one; row[index] panics past the end of row.
createCsvRow(headers, row) ==
    IF Len(row) < Len(headers) THEN Panic
    ELSE [k \in Range(headers) |->
            row[CHOOSE i \in 1..Len(headers) :
                    /\ headers[i] = k
                    /\ \A j \in (i + 1)..Len(headers) : headers[j] # k]]

\* "Line %d: name and email columns must be present"
LineErrorOffByOne(lineNo) == Error("Line", lineNo - 1, <<>>)
LineError(lineNo) == Error("Line", lineNo, <<>>)

Result(f, e) == [file |-> f, err |-> e]

\* The for loop of readCsv: rd is the reader, result the rows so far.
RECURSIVE readRows(_, _, _, _)
readRows(txt, headers, rd, result) ==
    The({ IF r.err = ErrEOF THEN Result(CsvFile(headers, result), NoErr)
          ELSE IF r.err # NoErr THEN Result(NoFile, r.err)
          ELSE The({ IF crow = Panic
                     THEN Result(NoFile, Error("panic", r.line, <<>>))
                     ELSE IF RowName(crow) = EmptyStr \/ RowEmail(crow) = EmptyStr
                     THEN Result(NoFile, LineError(r.line))
                     ELSE The({ readRows(txt, headers, rd2, result2) :
                                rd2 \in {r.rd},
                                result2 \in {Append(result, crow)} }) :
                     crow \in {createCsvRow(headers, r.rec)} }) :
          r \in {csvReaderRead(txt, rd)} })

\* readCsv with the reader's FieldsPerRecord set to -1 (no field count check).
readCsvAnyFieldCount(txt) ==
    The({ IF h.err # NoErr THEN Result(NoFile, h.err)
          ELSE The({ readRows(txt, hs, rd, rows) :
                     hs \in {h.rec}, rd \in {[h.rd EXCEPT !.fpr = -1]},
                     rows \in {<<>>} }) :
          h \in {csvReaderRead(txt, NewReader)} })

\* readCsv without the check of the error of the first Read.
readCsvNoHeaderCheck(txt) ==
    The({ IF h.err # NoErr THEN Result(CsvFile(h.rec, <<>>), NoErr)
          ELSE The({ readRows(txt, hs, rd, rows) :
                     hs \in {h.rec}, rd \in {h.rd}, rows \in {<<>>} }) :
          h \in {csvReaderRead(txt, NewReader)} })

readCsv(txt) ==
    The({ IF h.err # NoErr THEN Result(NoFile, h.err)
          ELSE The({ readRows(txt, hs, rd, rows) :
                     hs \in {h.rec}, rd \in {h.rd}, rows \in {<<>>} }) :
          h \in {csvReaderRead(txt, NewReader)} })

---------------------------------------------------------------------------
(* cmd/mailmerge: checkEmails.                                             *)

\* fmt.Errorf("Unrecognized emails: %s", unrecognizedEmails)
checkEmails(csvFile, emails) ==
    LET unrecognizedEmails == Difference(emails, AsEmailSet(csvFile))
    IN  IF Cardinality(unrecognizedEmails) > 0
        THEN Error("Unrecognized", 0, EmailSetString(unrecognizedEmails))
        ELSE NoErr

---------------------------------------------------------------------------
(* merge.go: NewEmailSet; cmd/mailmerge: doEmailFilter, doNoEmailFilter.   *)

\* strings.Split(s, ","): the pieces of s between its commas, an empty piece
\* where two commas meet or s begins or ends with one; one piece, s itself,
\* when s has no comma (the empty s included).
Split(s) ==
    LET P    == {i \in 1..Len(s) : s[i] = Comma}
        n    == Cardinality(P)
        at   == [k \in 0..(n + 1) |->
                   IF k = 0 THEN 0
                   ELSE IF k = n + 1 THEN Len(s) + 1
                   ELSE CHOOSE p \in P : Cardinality({q \in P : q <= p}) = k]
    IN  [k \in 1..(n + 1) |-> SubSeq(s, at[k - 1] + 1, at[k] - 1)]

\* strings.TrimSpace
TrimSpace(s) ==
    LET K == {i \in 1..Len(s) : ~IsSpace(s[i])}
    IN  IF K = {} THEN EmptyStr
        ELSE SubSeq(s, CHOOSE i \in K : \A j \in K : i <= j,
                       CHOOSE i \in K : \A j \in K : j <= i)

NewEmailSetDropsEmpty(commaSeparatedEmails) ==
    {TrimSpace(email) : email \in Range(Split(commaSeparatedEmails))}
        \ {EmptyStr}

NewEmailSet(commaSeparatedEmails) ==
    {TrimSpace(email) : email \in Range(Split(commaSeparatedEmails))}

\* The (*CsvFile, error) a filter returns.
Filtered(f, e) == [file |-> f, err |-> e]

doEmailFilter(csvFile, emails) ==
    LET selectedEmails == NewEmailSet(emails)
        e == checkEmails(csvFile, selectedEmails)
    IN  IF e # NoErr THEN Filtered(NoFile, e)
        ELSE Filtered(SelectEmails(csvFile, selectedEmails), NoErr)

doNoEmailFilter(csvFile, noEmails) ==
    LET selectedNoEmails == NewEmailSet(noEmails)
        e == checkEmails(csvFile, selectedNoEmails)
    IN  IF e # NoErr THEN Filtered(NoFile, e)
        ELSE Filtered(SelectNoEmails(csvFile, selectedNoEmails), NoErr)

---------------------------------------------------------------------------
(* The inputs the model draws.                                             *)

MaxRows == 2
MaxLead == 1
MaxEmails == 2

Blank == <<>>

HeaderLines ==
    { <<Email, Name, Going>>,
      <<Email, Name>>,
      <<Name, Email, Going, Going>>,
      <<Email>> }

DataLines ==
    { <<<<"a">>, <<"x">>, <<"n">>>>,
      <<<<"b">>, <<"y">>, <<"y">>>>,
      <<<<"a">>, <<"z">>, <<"N", "o">>>>,
      <<<<"b">>, <<"y">>, <<>>>>,
      <<<<>>, <<"y">>, <<"y">>>>,
      <<<<"b">>, <<>>, <<"n">>>>,
      <<<<"a">>, <<"x">>>>,
      <<<<"b">>, <<"y">>>>,
      <<<<>>, <<"y">>>>,
      <<<<"x">>, <<"a">>, <<"n">>, <<"Y">>>>,
      <<<<"a">>>>,
      <<<<"b", DQ>>, <<"y">>, <<"y">>>>,
      Blank }

\* The lines as they stand in the file: fields joined by commas, a newline
\* after every line but the last, and after the last one when nl.
RawText(ls, nl) ==
    LET raw == [i \in 1..Len(ls) |-> Join(ls[i], <<Comma>>)]
    IN  Join(raw, <<LF>>) \o (IF nl /\ ls # <<>> THEN <<LF>> ELSE <<>>)

InputLines ==
    {<<>>} \cup
    { [i \in 1..pre |-> Blank] \o <<h>> \o rows :
        pre \in 0..MaxLead, h \in HeaderLines,
        rows \in UNION {[1..n -> DataLines] : n \in 0..MaxRows} }

EmailPool == {<<"a">>, <<"b">>, <<"c">>, <<"a", "b">>}

EmailArgs == {S \in SUBSET EmailPool : Cardinality(S) <= MaxEmails}

\* Values of the -emails and -noemails flags: one address, two addresses,
\* an address not in any file, pieces with spaces around them, a trailing
\* comma, a piece of spaces alone, and the empty text.
FlagTexts ==
    { EmptyStr,
      <<"a">>,
      <<"b">>,
      <<"c">>,
      <<"b", Comma, SP, "a">>,
      <<"a", Comma>>,
      <<SP, "b", SP, Comma, SP>>,
      <<Comma, "a", Comma, "a">> }

---------------------------------------------------------------------------
(* The library as a state machine: a load, then any CsvFile operations.    *)

\* main is not running: its flags and its loop are at their zero values.
NoRun ==
    /\ fEmails = EmptyStr
    /\ fNoEmails = EmptyStr
    /\ fIndex = 0
    /\ index = 0
    /\ sent = <<>>

Init ==
    /\ lines \in InputLines
    /\ \E nl \in BOOLEAN : text = RawText(lines, nl)
    /\ pc = "start"
    /\ file = NoFile
    /\ err = NoErr
    /\ prev = NoFile
    /\ op = "none"
    /\ arg = {}
    /\ orig = NoFile
    /\ out = <<>>
    /\ applied = FALSE
    /\ NoRun

\* readCsv(r): the reader is read to its end (or to the error).
Load ==
    /\ pc = "start"
    /\ \E r \in {readCsv(text)} :
           /\ file' = r.file
           /\ err' = r.err
           /\ orig' = r.file
           /\ pc' = IF r.err = NoErr THEN "loaded" ELSE "failed"
    /\ op' = "readCsv"
    /\ text' = <<>>
    /\ lines' = <<>>
    /\ UNCHANGED <<prev, arg, out, applied, run>>

DoSelectEmails(emails) ==
    /\ pc = "loaded"
    /\ file' = SelectEmails(file, emails)
    /\ prev' = file
    /\ op' = "SelectEmails"
    /\ arg' = emails
    /\ err' = NoErr
    /\ UNCHANGED <<text, lines, pc, orig, out, applied, run>>

DoSelectNoEmails(emails) ==
    /\ pc = "loaded"
    /\ file' = SelectNoEmails(file, emails)
    /\ prev' = file
    /\ op' = "SelectNoEmails"
    /\ arg' = emails
    /\ err' = NoErr
    /\ UNCHANGED <<text, lines, pc, orig, out, applied, run>>

DoSelectGoing ==
    /\ pc = "loaded"
    /\ file' = SelectGoing(file)
    /\ prev' = file
    /\ op' = "SelectGoing"
    /\ arg' = {}
    /\ err' = NoErr
    /\ UNCHANGED <<text, lines, pc, orig, out, applied, run>>

DoWithNotGoing ==
    /\ pc = "loaded"
    /\ file' = WithNotGoing(file)
    /\ prev' = file
    /\ op' = "WithNotGoing"
    /\ arg' = {}
    /\ err' = NoErr
    /\ applied' = TRUE
    /\ UNCHANGED <<text, lines, pc, orig, out, run>>

DoCheckEmails(emails) ==
    /\ pc = "loaded"
    /\ err' = checkEmails(file, emails)
    /\ prev' = file
    /\ op' = "checkEmails"
    /\ arg' = emails
    /\ UNCHANGED <<text, lines, pc, file, orig, out, applied, run>>

\* doEmailFilter(csvFile, emails), as main calls it.
DoEmailFilter(emails) ==
    /\ pc = "loaded"
    /\ \E r \in {doEmailFilter(file, emails)} :
           /\ file' = r.file
           /\ err' = r.err
           /\ pc' = IF r.err = NoErr THEN "loaded" ELSE "failed"
    /\ prev' = file
    /\ op' = "doEmailFilter"
    /\ arg' = emails
    /\ UNCHANGED <<text, lines, orig, out, applied, run>>

\* doNoEmailFilter(csvFile, noEmails), as main calls it.
DoNoEmailFilter(noEmails) ==
    /\ pc = "loaded"
    /\ \E r \in {doNoEmailFilter(file, noEmails)} :
           /\ file' = r.file
           /\ err' = r.err
           /\ pc' = IF r.err = NoErr THEN "loaded" ELSE "failed"
    /\ prev' = file
    /\ op' = "doNoEmailFilter"
    /\ arg' = noEmails
    /\ UNCHANGED <<text, lines, orig, out, applied, run>>

Next ==
    \/ Load
    \/ \E emails \in EmailArgs : DoSelectEmails(emails)
    \/ \E emails \in EmailArgs : DoSelectNoEmails(emails)
    \/ DoSelectGoing
    \/ DoWithNotGoing
    \/ \E emails \in EmailArgs : DoCheckEmails(emails)
    \/ \E emails \in FlagTexts : DoEmailFilter(emails)
    \/ \E noEmails \in FlagTexts : DoNoEmailFilter(noEmails)

Spec == Init /\ [][Next]_vars

---------------------------------------------------------------------------
(* Properties of the CsvFile operations and of checkEmails.                *)

\* The rows at the indices I, in their order.
Pick(rows, I) ==
    [k \in 1..Cardinality(I) |->
        rows[CHOOSE i \in I : Cardinality({j \in I : j <= i}) = k]]

Count(s, v) == Cardinality({i \in 1..Len(s) : s[i] = v})

\* C1: SelectEmails(T, S) and SelectNoEmails(T, S) partition the rows of T:
\* some set I of row positions gives the one, its complement the other, each
\* in T's order, and both carry T's header.
C1_SelectPartition ==
    op \in {"SelectEmails", "SelectNoEmails"} =>
        LET A == SelectEmails(prev, arg)
            B == SelectNoEmails(prev, arg)
            n == Len(prev.Rows)
        IN  /\ file = (IF op = "SelectEmails" THEN A ELSE B)
            /\ A.Headers = prev.Headers
            /\ B.Headers = prev.Headers
            /\ \E I \in SUBSET (1..n) :
                   /\ A.Rows = Pick(prev.Rows, I)
                   /\ B.Rows = Pick(prev.Rows, (1..n) \ I)

\* A table of two rows of which SelectEmails kept one.
C1_Witness ==
    /\ op = "SelectEmails"
    /\ Len(prev.Rows) = 2
    /\ Len(file.Rows) = 1
    /\ Len(SelectNoEmails(prev, arg).Rows) = 1

\* The arrangements of the set D in strictly ascending byte order.
Ascending(D) ==
    {s \in [1..Cardinality(D) -> D] :
        \A i, j \in 1..Cardinality(D) : i < j => StrLess(s[i], s[j])}

\* C2: checkEmails fails exactly when some requested email is the email of no
\* row; the error then carries those emails in ascending order joined by ", ".
C2_CheckEmails ==
    op = "checkEmails" =>
        LET D == {e \in arg : \A i \in 1..Len(prev.Rows) :
                                   Get(prev.Rows[i], Email) # e}
        IN  /\ D = Difference(arg, AsEmailSet(prev))
            /\ (err = NoErr) <=> (D = {})
            /\ D # {} =>
                 /\ err.kind = "Unrecognized"
                 /\ \E s \in Ascending(D) : err.msg = Join(s, <<Comma, SP>>)

\* The check failed with two unrecognized emails, so the order shows.
C2_Witness ==
    /\ op = "checkEmails"
    /\ err.kind = "Unrecognized"
    /\ Cardinality(Difference(arg, AsEmailSet(prev))) = 2
    /\ prev.Rows # <<>>

\* C6: every table that a load and then any operations produce has a
\* non-empty name and email in every row, row keys within the header, and
\* as many "going" headers as were loaded, or one if none was loaded and
\* WithNotGoing was applied.
C6_TableInvariant ==
    pc = "loaded" =>
        /\ \A i \in 1..Len(file.Rows) :
               /\ RowName(file.Rows[i]) # EmptyStr
               /\ RowEmail(file.Rows[i]) # EmptyStr
               /\ DOMAIN file.Rows[i] \subseteq Range(file.Headers)
        /\ \/ Count(file.Headers, Going) <= Count(orig.Headers, Going)
           \/ /\ Count(orig.Headers, Going) = 0
              /\ applied
              /\ Count(file.Headers, Going) = 1

\* A loaded table without a "going" column, after WithNotGoing.
C6_Witness ==
    /\ pc = "loaded"
    /\ applied
    /\ Count(orig.Headers, Going) = 0
    /\ Count(file.Headers, Going) = 1
    /\ Len(file.Rows) = 2

\* C7: WithNotGoing applied to its own result changes nothing, and adds no
\* second "going" header.
C7_WithNotGoingIdempotent ==
    op = "WithNotGoing" =>
        /\ WithNotGoing(file).Headers = file.Headers
        /\ WithNotGoing(file).Rows = file.Rows
        /\ Count(WithNotGoing(file).Headers, Going) = Count(file.Headers, Going)

\* WithNotGoing was applied to a result of WithNotGoing, the loaded table
\* having had no "going" column.
C7_Witness ==
    /\ op = "WithNotGoing"
    /\ prev = file
    /\ file.Rows # <<>>
    /\ Count(orig.Headers, Going) = 0

\* C8: WithNotGoing keeps the rows and their order, sets every "going" to
\* "n", keeps every other column, and appends "going" to a header without it.
C8_WithNotGoing ==
    op = "WithNotGoing" =>
        /\ Len(file.Rows) = Len(prev.Rows)
        /\ \A i \in 1..Len(prev.Rows) :
               /\ Get(file.Rows[i], Going) = <<"n">>
               /\ DOMAIN file.Rows[i] = DOMAIN prev.Rows[i] \cup {Going}
               /\ \A k \in DOMAIN prev.Rows[i] \ {Going} :
                      file.Rows[i][k] = prev.Rows[i][k]
        /\ IF Count(prev.Headers, Going) = 0
           THEN /\ Len(file.Headers) = Len(prev.Headers) + 1
                /\ SubSeq(file.Headers, 1, Len(prev.Headers)) = prev.Headers
                /\ file.Headers[Len(file.Headers)] = Going
           ELSE file.Headers = prev.Headers

\* WithNotGoing overwrote a "going" value other than "n".
C8_Witness ==
    /\ op = "WithNotGoing"
    /\ Count(prev.Headers, Going) > 0
    /\ \E i \in 1..Len(prev.Rows) : Get(prev.Rows[i], Going) = <<"y">>

\* Whether a "going" value declines: it starts with n or N.
Declines(v) == v # <<>> /\ v[1] \in {"n", "N"}

\* C9: SelectGoing keeps, in order, exactly the rows whose "going" value
\* does not start with n or N (an empty or absent value attends), and
\* leaves the header as it is.
C9_SelectGoing ==
    op = "SelectGoing" =>
        /\ file.Headers = prev.Headers
        /\ file.Rows = Pick(prev.Rows,
                            {i \in 1..Len(prev.Rows) :
                                 ~Declines(Get(prev.Rows[i], Going))})

\* SelectGoing dropped a row declining with a capital N and kept another.
C9_Witness ==
    /\ op = "SelectGoing"
    /\ \E i \in 1..Len(prev.Rows) : Get(prev.Rows[i], Going) = <<"N", "o">>
    /\ Len(file.Rows) = 1
    /\ Len(prev.Rows) = 2

---------------------------------------------------------------------------
(* Properties of readCsv, stated of the lines the input was composed of.   *)
(* A line of the input is one physical line: line i of the file is         *)
(* lines[i], the blank ones included.                                      *)

Min(S) == CHOOSE x \in S : \A y \in S : x <= y

NonBlank(ls) == {i \in 1..Len(ls) : ls[i] # Blank}

HasHeader(ls) == NonBlank(ls) # {}

HeaderAt(ls) == Min(NonBlank(ls))

HeaderOf(ls) == ls[HeaderAt(ls)]

\* The lines of the data rows.
DataAt(ls) == NonBlank(ls) \ {HeaderAt(ls)}

\* The value of column k of a row mapped to the header by position: that of
\* the last column named k the row reaches, else the empty string.
Mapped(hdr, row, k) ==
    LET at == {i \in 1..Len(hdr) : i <= Len(row) /\ hdr[i] = k}
    IN  IF at = {} THEN EmptyStr ELSE row[CHOOSE i \in at : \A j \in at : j <= i]

\* The data rows with an empty or absent name or email.
Unnamed(ls) ==
    {i \in DataAt(ls) : \/ Mapped(HeaderOf(ls), ls[i], Name) = EmptyStr
                        \/ Mapped(HeaderOf(ls), ls[i], Email) = EmptyStr}

\* The data rows with a field count other than the header's.
Miscounted(ls) == {i \in DataAt(ls) : Len(ls[i]) # Len(HeaderOf(ls))}

\* The data rows that are not well-formed CSV (a quote in an unquoted field).
Malformed(ls) ==
    {i \in DataAt(ls) : \E f \in 1..Len(ls[i]) : SeqContains(ls[i][f], DQ)}

\* The step from pc = "start" is the call of readCsv.
Loading == pc = "start" /\ pc' # "start"

\* Row n of the table holds the data row at line i, mapped to the header.
HoldsRow(f, n, ls, i) ==
    \A k \in Range(HeaderOf(ls)) :
        Get(f.Rows[n], k) = Mapped(HeaderOf(ls), ls[i], k)

\* The table holds every data row, in input order.
HoldsAllRows(f, ls) ==
    /\ f.Headers = HeaderOf(ls)
    /\ Len(f.Rows) = Cardinality(DataAt(ls))
    /\ \A n \in 1..Len(f.Rows) :
           HoldsRow(f, n, ls, CHOOSE i \in DataAt(ls) :
                                 Cardinality({j \in DataAt(ls) : j <= i}) = n)

\* C3 as claimed: a data row with fewer or more fields than the header is
\* accepted (short rows read as empty past their end, extra fields ignored):
\* when every row is well-formed and has a name and an email, the load
\* succeeds whatever the field counts.
C3_MiscountedAccepted ==
    [][(Loading /\ HasHeader(lines) /\ Unnamed(lines) = {}
                /\ Malformed(lines) = {})
          => (err' = NoErr /\ HoldsAllRows(file', lines))]_vars

\* C3 as the code has it: a data row whose field count differs from the
\* header's makes the load fail, with no table; when all rows before the
\* first such row are well-formed and have a name and an email, the error is
\* the reader's field count error for the line of that row.
C3_MiscountedRejected ==
    [][(Loading /\ HasHeader(lines) /\ Miscounted(lines) # {})
          => /\ file' = NoFile
             /\ err' # NoErr
             /\ (\A i \in Unnamed(lines) \cup Malformed(lines) :
                     i >= Min(Miscounted(lines)))
                  => \/ err' = ParseError(Min(Miscounted(lines)), "ErrFieldCount")
                     \/ /\ Min(Miscounted(lines)) \in Malformed(lines)
                        /\ err'.kind = "ParseError"
                        /\ err'.line = Min(Miscounted(lines))]_vars

\* A load that failed on the field count of the row on line 3.
C3_Witness ==
    /\ op = "readCsv"
    /\ pc = "failed"
    /\ err = ParseError(3, "ErrFieldCount")

\* The first line whose row readCsv rejects.
Rejected(ls) == Unnamed(ls) \cup Miscounted(ls) \cup Malformed(ls)

\* C4 as claimed: when some data row has an empty or absent name or email,
\* the load fails with no table and the error names the line of the first
\* such row; otherwise, when the input parses, the table holds every data
\* row in input order.
C4_FirstUnnamedLine ==
    [][(Loading /\ HasHeader(lines))
          => /\ Unnamed(lines) # {} =>
                 /\ file' = NoFile
                 /\ err' # NoErr
                 /\ err'.line = Min(Unnamed(lines))
             /\ (Unnamed(lines) = {} /\ err' = NoErr)
                  => HoldsAllRows(file', lines)]_vars

\* C4 as the code has it: the error names the line of the first row that
\* is rejected, for an empty or absent name or email, for a field count
\* other than the header's, or for malformed CSV.
C4_FirstRejectedLine ==
    [][(Loading /\ HasHeader(lines))
          => /\ Unnamed(lines) # {} =>
                 /\ file' = NoFile
                 /\ err' # NoErr
                 /\ err'.line = Min(Rejected(lines))
             /\ (Unnamed(lines) = {} /\ err' = NoErr)
                  => HoldsAllRows(file', lines)
             /\ (Rejected(lines) # {} /\ Min(Rejected(lines)) \notin
                     Miscounted(lines) \cup Malformed(lines))
                  => err' = LineError(Min(Rejected(lines)))]_vars

\* A load that failed on the empty name or email of the row on line 4 (a
\* blank line or a leading blank line came before it).
C4_Witness ==
    /\ op = "readCsv"
    /\ pc = "failed"
    /\ err.kind = "Line"
    /\ err.line = 4

\* C5: an input of a header row alone loads as a table of that header and no
\* rows; an empty input fails with no table.
C5_HeaderOnly ==
    [][Loading
          => /\ (HasHeader(lines) /\ DataAt(lines) = {})
                  => /\ err' = NoErr
                     /\ file'.Headers = HeaderOf(lines)
                     /\ file'.Rows = <<>>
             /\ text = <<>> => (err' # NoErr /\ file' = NoFile)]_vars

\* A header without a name column, alone, loaded as an empty table.
C5_Witness ==
    /\ op = "readCsv"
    /\ pc = "loaded"
    /\ file.Headers = <<Email>>
    /\ file.Rows = <<>>

---------------------------------------------------------------------------
(* Properties of NewEmailSet under doEmailFilter and doNoEmailFilter.      *)

\* The pieces of s between its commas, each as <<i, j>>: the piece is
\* s[i..j], and it is empty when j = i - 1.
Pieces(s) ==
    { ij \in (1..(Len(s) + 1)) \X (0..Len(s)) :
        /\ ij[2] >= ij[1] - 1
        /\ \A k \in ij[1]..ij[2] : s[k] # Comma
        /\ ij[1] = 1 \/ s[ij[1] - 1] = Comma
        /\ ij[2] = Len(s) \/ s[ij[2] + 1] = Comma }

\* A piece with nothing in it but spaces.
BlankPiece(s, ij) == \A k \in ij[1]..ij[2] : s[k] \in {SP, LF, CR}

\* e is the piece ij of s without the spaces at its two ends.
PieceOf(s, ij, e) ==
    IF BlankPiece(s, ij) THEN e = EmptyStr
    ELSE \E a \in ij[1]..ij[2] : \E b \in a..ij[2] :
            /\ e = SubSeq(s, a, b)
            /\ s[a] \notin {SP, LF, CR}
            /\ s[b] \notin {SP, LF, CR}
            /\ \A k \in (ij[1]..(a - 1)) \cup ((b + 1)..ij[2]) :
                   s[k] \in {SP, LF, CR}

\* C14: NewEmailSet holds exactly the trimmed pieces of the text, an empty
\* or all-space piece as the empty string; and for every loaded table the
\* identifier check of a text with such a piece fails, with no table, even
\* when every other address of the text is in the table.
C14_EmptySegmentFails ==
    op \in {"doEmailFilter", "doNoEmailFilter"} =>
        /\ \A ij \in Pieces(arg) :
               \E e \in NewEmailSet(arg) : PieceOf(arg, ij, e)
        /\ \A e \in NewEmailSet(arg) :
               \E ij \in Pieces(arg) : PieceOf(arg, ij, e)
        /\ (\E ij \in Pieces(arg) : BlankPiece(arg, ij)) =>
               /\ EmptyStr \in NewEmailSet(arg)
               /\ err # NoErr
               /\ err.kind = "Unrecognized"
               /\ file = NoFile
               /\ pc = "failed"

\* The text "a," was checked against a table that has the address a, and
\* the check failed over the empty piece alone.
C14_Witness ==
    /\ op = "doEmailFilter"
    /\ arg = <<"a", Comma>>
    /\ <<"a">> \in AsEmailSet(prev)
    /\ err = Error("Unrecognized", 0, EmptyStr)
    /\ pc = "failed"

---------------------------------------------------------------------------
(* The round trip: a table is written and the text is read back.           *)

MaxRTRows == 2

RTHeaders ==
    { <<Email, Name>>,
      <<Name, Email, Going>>,
      <<Name, <<DQ, "p">>, Email>>,
      <<Email, Name, <<"p", CR, LF>>>>,
      <<Name>> }

\* The headers whose line is empty when written: the zero CsvFile's, and a
\* single column named "".
RTEmptyHeaders == {<<>>, <<EmptyStr>>}

\* Cell values: plain, and with every character the writer quotes for.
RTValues ==
    { <<"a">>, <<SP, "a">>, <<"a", Comma, DQ>>, <<LF>>, <<"a", CR>>,
      <<"a", CR, LF, "b">> }

\* The rows a table of header h may hold: keys within the header, a name
\* and an email that are not empty.
RTRows(h) ==
    UNION { { r \in [K -> RTValues \cup {EmptyStr, <<"n">>, <<"b">>}] :
                /\ r[Name] \in RTValues
                /\ r[Email] = <<"b">>
                /\ \A k \in K \ {Name, Email} : r[k] \in {EmptyStr, <<"n">>} } :
            K \in {K \in SUBSET Range(h) : Name \in K /\ Email \in K} }

RTTables(headers) ==
    UNION { { CsvFile(h, rows) :
                rows \in UNION {[1..n -> RTRows(h)] : n \in 0..MaxRTRows} } :
            h \in headers }

InitRT ==
    /\ \/ file \in RTTables(RTHeaders)
       \/ file \in RTTables(RTEmptyHeaders)
    /\ orig = file
    /\ pc = "table"
    /\ text = <<>>
    /\ lines = <<>>
    /\ err = NoErr
    /\ prev = NoFile
    /\ op = "none"
    /\ arg = {}
    /\ out = <<>>
    /\ applied = FALSE
    /\ NoRun

\* c.write(w)
WriteTable ==
    /\ pc = "table"
    /\ out' = write(file)
    /\ op' = "write"
    /\ pc' = "written"
    /\ UNCHANGED <<text, lines, file, err, prev, arg, orig, applied, run>>

\* readCsv(r) on what was written.
ReadBack ==
    /\ pc = "written"
    /\ \E r \in {readCsv(out)} :
           /\ file' = r.file
           /\ err' = r.err
    /\ prev' = file
    /\ op' = "readCsv"
    /\ pc' = "reread"
    /\ UNCHANGED <<text, lines, arg, orig, out, applied, run>>

NextRT == WriteTable \/ ReadBack

SpecRT == InitRT /\ [][NextRT]_vars

\* The tables have the same header and, row by row, the same column values.
SameTable(a, b) ==
    /\ a.Headers = b.Headers
    /\ Len(a.Rows) = Len(b.Rows)
    /\ \A i \in 1..Len(a.Rows) : \A k \in Range(a.Headers) :
           Get(a.Rows[i], k) = Get(b.Rows[i], k)

HasCRLF(v) == \E i \in 1..(Len(v) - 1) : v[i] = CR /\ v[i + 1] = LF

\* No header name and no cell holds a carriage return followed by a newline,
\* and the header line is not empty.
RoundTrips(c) ==
    /\ c.Headers # <<>>
    /\ c.Headers # <<EmptyStr>>
    /\ \A j \in 1..Len(c.Headers) : ~HasCRLF(c.Headers[j])
    /\ \A i \in 1..Len(c.Rows) : \A k \in DOMAIN c.Rows[i] : ~HasCRLF(c.Rows[i][k])

\* C10 as claimed: every table with a name and an email in every row and row
\* keys within the header is read back as written.
C10_RoundTripAny ==
    pc = "reread" => (err = NoErr /\ SameTable(prev, file))

\* C10 as the code has it: the table is read back as written when no header
\* name or cell holds a carriage return followed by a newline and the header
\* line is not empty (some column, and not a single column named "").
C10_RoundTrip ==
    (pc = "reread" /\ RoundTrips(prev)) => (err = NoErr /\ SameTable(prev, file))

\* Two different rows, one with a key absent and a value the writer quotes,
\* were written and read back.
C10_Witness ==
    /\ pc = "reread"
    /\ RoundTrips(prev)
    /\ Len(prev.Rows) = 2
    /\ prev.Rows[1] # prev.Rows[2]
    /\ \E i \in 1..2 : Going \in Range(prev.Headers) \ DOMAIN prev.Rows[i]
    /\ \E i \in 1..2 : RowName(prev.Rows[i]) = <<"a", Comma, DQ>>

---------------------------------------------------------------------------
(* cmd/mailmerge: main, from the reading of the config file to the end of  *)
(* the send loop. The -template, -csv and -subject flags are given. What   *)
(* the file system, the template and the mail server do is the             *)
(* environment's choice: each of readConfig, readTemplate, createEmail and *)
(* the result of SendFuture either succeeds or fails.                      *)

MaxCsvRows == 2
MaxIndex == 1

\* An error of the environment, of the given kind.
EnvError(kind) == Error(kind, 0, EmptyStr)

\* main, lines 58-72: the -emails filter when -emails is given, otherwise
\* the -noemails filter when -noemails is given, otherwise no filter.
mainFilterNoEmailsFirst(csvFile, emails, noEmails) ==
    IF noEmails # EmptyStr THEN doNoEmailFilter(csvFile, noEmails)
    ELSE IF emails # EmptyStr THEN doEmailFilter(csvFile, emails)
    ELSE Filtered(csvFile, NoErr)

mainFilter(csvFile, emails, noEmails) ==
    IF emails # EmptyStr THEN doEmailFilter(csvFile, emails)
    ELSE IF noEmails # EmptyStr THEN doNoEmailFilter(csvFile, noEmails)
    ELSE Filtered(csvFile, NoErr)

\* main, line 76: the rows before -index are passed over.
skipsThrough(i, from) == i <= from

skips(i, from) == i < from

\* The files given as -csv: with a going column, rows that attend and rows
\* that decline, two rows of one address among them; without the column;
\* and the empty file.
CsvTexts ==
    LET withGoing == { <<<<"a">>, <<"x">>, <<"y">>>>,
                       <<<<"a">>, <<"z">>, <<"n">>>>,
                       <<<<"b">>, <<"y">>, <<"N", "o">>>>,
                       <<<<"b">>, <<"y">>, <<>>>> }
        without   == { <<<<"a">>, <<"x">>>>, <<<<"b">>, <<"y">>>> }
    IN  {EmptyStr}
        \cup { RawText(<<<<Email, Name, Going>>>> \o rows, TRUE) :
                 rows \in UNION {[1..n -> withGoing] : n \in 0..MaxCsvRows} }
        \cup { RawText(<<<<Email, Name>>>> \o rows, TRUE) :
                 rows \in UNION {[1..n -> without] : n \in 0..MaxCsvRows} }

NoEmailsTexts == {EmptyStr, <<"a">>, <<"b", Comma, SP, "a">>, <<"c">>}

InitMain ==
    /\ text \in CsvTexts
    /\ fEmails \in FlagTexts
    /\ fNoEmails \in NoEmailsTexts
    /\ fIndex \in (-1)..MaxIndex
    /\ index = 0
    /\ sent = <<>>
    /\ pc = "main"
    /\ lines = <<>>
    /\ file = NoFile
    /\ err = NoErr
    /\ prev = NoFile
    /\ op = "none"
    /\ arg = {}
    /\ orig = NoFile
    /\ out = <<>>
    /\ applied = FALSE

\* main, lines 42-46: config, err := readConfig()
ReadConfig ==
    /\ pc = "main"
    /\ \E ok \in BOOLEAN :
           /\ pc' = IF ok THEN "config" ELSE "exit1"
           /\ err' = IF ok THEN NoErr ELSE EnvError("readConfig")
    /\ op' = "readConfig"
    /\ UNCHANGED <<text, lines, file, prev, arg, orig, out, applied, run>>

\* main, lines 47-51: csvFile, err := merge.ReadCsv(fCsv)
ReadCsvFile ==
    /\ pc = "config"
    /\ \E r \in {readCsv(text)} :
           /\ file' = r.file
           /\ orig' = r.file
           /\ err' = r.err
           /\ pc' = IF r.err = NoErr THEN "read" ELSE "exit1"
    /\ text' = <<>>
    /\ op' = "ReadCsv"
    /\ UNCHANGED <<lines, prev, arg, out, applied, run>>

\* main, line 52: csvFile = csvFile.SelectGoing()
SelectGoingRows ==
    /\ pc = "read"
    /\ file' = SelectGoing(file)
    /\ prev' = file
    /\ pc' = "going"
    /\ op' = "SelectGoing"
    /\ UNCHANGED <<text, lines, err, arg, orig, out, applied, run>>

\* main, lines 53-57: template, err := readTemplate(fTemplate)
ReadTemplate ==
    /\ pc = "going"
    /\ \E ok \in BOOLEAN :
           /\ pc' = IF ok THEN "filter" ELSE "exit1"
           /\ err' = IF ok THEN NoErr ELSE EnvError("readTemplate")
    /\ op' = "readTemplate"
    /\ UNCHANGED <<text, lines, file, prev, arg, orig, out, applied, run>>

\* main, lines 58-74: the filter of the flags, then the sender is created
\* and the loop begins.
Filter ==
    /\ pc = "filter"
    /\ \E r \in {mainFilter(file, fEmails, fNoEmails)} :
           /\ file' = r.file
           /\ err' = r.err
           /\ pc' = IF r.err = NoErr THEN "loop" ELSE "exit1"
    /\ prev' = file
    /\ op' = "filter"
    /\ index' = 0
    /\ UNCHANGED <<text, lines, arg, orig, out, applied, flags, sent>>

\* main, lines 75-78: a row before -index: continue.
SkipRow ==
    /\ pc = "loop"
    /\ index < Len(file.Rows)
    /\ skips(index, fIndex)
    /\ index' = index + 1
    /\ op' = "continue"
    /\ UNCHANGED <<text, lines, pc, file, err, prev, arg, orig, out, applied,
                   flags, sent>>

\* main, lines 79-85: createEmail for the row; on success the message is
\* handed to sender.SendFuture and main waits on the channel it returns.
CreateEmailAndSend ==
    /\ pc = "loop"
    /\ index < Len(file.Rows)
    /\ ~skips(index, fIndex)
    /\ \E ok \in BOOLEAN :
           /\ pc' = IF ok THEN "await" ELSE "exit1"
           /\ err' = IF ok THEN NoErr ELSE EnvError("createEmail")
           /\ sent' = IF ok THEN Append(sent, file.Rows[index + 1]) ELSE sent
    /\ op' = "createEmail"
    /\ UNCHANGED <<text, lines, file, prev, arg, orig, out, applied,
                   flags, index>>

\* main, lines 85-89: the result of the send arrives on the channel.
AwaitSend ==
    /\ pc = "await"
    /\ \E ok \in BOOLEAN :
           /\ pc' = IF ok THEN "loop" ELSE "exit1"
           /\ err' = IF ok THEN NoErr ELSE EnvError("SendFuture")
           /\ index' = IF ok THEN index + 1 ELSE index
    /\ op' = "SendFuture"
    /\ UNCHANGED <<text, lines, file, prev, arg, orig, out, applied,
                   flags, sent>>

\* main, lines 75, 91: the loop is over; the deferred Shutdown runs.
Return ==
    /\ pc = "loop"
    /\ index = Len(file.Rows)
    /\ pc' = "done"
    /\ op' = "Shutdown"
    /\ UNCHANGED <<text, lines, file, err, prev, arg, orig, out, applied, run>>

NextMain ==
    \/ ReadConfig
    \/ ReadCsvFile
    \/ SelectGoingRows
    \/ ReadTemplate
    \/ Filter
    \/ SkipRow
    \/ CreateEmailAndSend
    \/ AwaitSend
    \/ Return

SpecMain == InitMain /\ [][NextMain]_vars

---------------------------------------------------------------------------
(* Properties of a run of main.                                            *)

\* The run passed validation: the filter of the flags returned no error.
Validated ==
    \/ pc \in {"loop", "await", "done"}
    \/ pc = "exit1" /\ err.kind \in {"createEmail", "SendFuture"}

\* The run came to the filter of the flags.
CameToFilter == Validated \/ (pc = "exit1" /\ err.kind = "Unrecognized")

\* The positions in the loaded file of the rows that attend.
Attending(c) ==
    {i \in 1..Len(c.Rows) : ~Declines(Get(c.Rows[i], Going))}

\* The positions in the loaded file of the rows eligible for mail.
Eligible(c, emails, noEmails) ==
    { i \in Attending(c) :
        IF emails # EmptyStr
        THEN Get(c.Rows[i], Email) \in NewEmailSet(emails)
        ELSE IF noEmails # EmptyStr
        THEN Get(c.Rows[i], Email) \notin NewEmailSet(noEmails)
        ELSE TRUE }

\* C11: in a run that passes validation the rows eligible for mail are the
\* attending rows of the file, those with an email in -emails when -emails
\* is given, otherwise those with an email not in -noemails when -noemails
\* is given, otherwise all of them; -noemails plays no part when -emails is
\* given, neither in the rows nor in the validation; and no row that
\* declines is ever handed to the sender.
C11_EligibleRows ==
    /\ Validated =>
           /\ file.Headers = orig.Headers
           /\ file.Rows = Pick(orig.Rows, Eligible(orig, fEmails, fNoEmails))
    /\ (CameToFilter /\ fEmails # EmptyStr) =>
           (Validated <=>
               \A e \in NewEmailSet(fEmails) :
                   \E i \in Attending(orig) : Get(orig.Rows[i], Email) = e)
    /\ \A k \in 1..Len(sent) :
           /\ ~Declines(Get(sent[k], Going))
           /\ \E i \in Eligible(orig, fEmails, fNoEmails) :
                  sent[k] = orig.Rows[i]

\* A run with both flags given, -noemails naming the address that -emails
\* asks for, ended with that address mailed, a declining row left out.
C11_Witness ==
    /\ pc = "done"
    /\ fEmails = <<"a">>
    /\ fNoEmails = <<"a">>
    /\ Len(orig.Rows) = 2
    /\ Attending(orig) = {1}
    /\ Len(sent) = 1
    /\ RowEmail(sent[1]) = <<"a">>

\* The rows of the filtered list from the position -index (from the first
\* when -index is negative) up to, not including, position k, counted
\* from 0.
FromIndex(k) ==
    SubSeq(file.Rows, (IF fIndex > 0 THEN fIndex ELSE 0) + 1, k)

\* Where the send loop stands: what has been handed to the sender so far.
InOrderFromIndex ==
    /\ pc = "loop" => (index <= Len(file.Rows) /\ sent = FromIndex(index))
    /\ pc = "await" => (index < Len(file.Rows) /\ index >= fIndex
                          /\ sent = FromIndex(index + 1))
    /\ pc = "done" => sent = FromIndex(Len(file.Rows))
    /\ (pc = "exit1" /\ err.kind = "createEmail") => sent = FromIndex(index)
    /\ (pc = "exit1" /\ err.kind = "SendFuture") =>
           sent = FromIndex(index + 1)
    /\ ~Validated => sent = <<>>

\* C12: the messages are handed to the sender one at a time in the order of
\* the filtered list, for exactly the rows at positions from -index on;
\* a message is handed over only when no send is awaited, and the next row
\* is taken up only once the result has come; after the first createEmail
\* or send error nothing more is handed over.
C12_SendLoop ==
    [][/\ InOrderFromIndex'
       /\ sent' # sent =>
              /\ pc = "loop" /\ pc' = "await"
              /\ index' = index
              /\ sent' = Append(sent, file.Rows[index + 1])
       /\ pc = "await" =>
              /\ sent' = sent
              /\ pc' \in {"loop", "exit1"}
              /\ pc' = "loop" => index' = index + 1
       /\ pc = "exit1" => (sent' = sent /\ pc' = "exit1")]_vars

\* A run with -index 1 over a filtered list of two rows: the first was
\* passed over and the second sent.
C12_Witness ==
    /\ pc = "done"
    /\ fIndex = 1
    /\ Len(file.Rows) = 2
    /\ sent = <<file.Rows[2]>>
    /\ file.Rows[1] # file.Rows[2]

\* The addresses of the rows of the loaded file at the positions I.
Addresses(c, I) == {Get(c.Rows[i], Email) : i \in I}

\* The addresses of the rows that decline.
DecliningAddresses(c) == Addresses(c, (1..Len(c.Rows)) \ Attending(c))

\* The run failed with the Unrecognized emails error, the address a among
\* those it names and all of them addresses of the flag text, and nothing
\* was sent.
FailsNaming(a, flagText) ==
    /\ pc = "exit1"
    /\ err.kind = "Unrecognized"
    /\ \E D \in SUBSET NewEmailSet(flagText) :
           a \in D /\ err.msg = EmailSetString(D)
    /\ sent = <<>>

\* C13 as claimed: when -emails or -noemails names an address that has a
\* declining row in the file, the run fails with the Unrecognized emails
\* error naming that address and nothing is sent.
C13_DecliningNamedFails ==
    CameToFilter =>
        /\ \A a \in NewEmailSet(fEmails) \cap DecliningAddresses(orig) :
               FailsNaming(a, fEmails)
        /\ \A a \in NewEmailSet(fNoEmails) \cap DecliningAddresses(orig) :
               FailsNaming(a, fNoEmails)

\* The flag main looks at: -emails when given, otherwise -noemails.
FlagInEffect == IF fEmails # EmptyStr THEN fEmails ELSE fNoEmails

\* C13 as the code has it: the check is against the attending rows. The
\* run fails exactly when the flag in effect names an address that no
\* attending row has, and the error names exactly those addresses; so an
\* address of the flag in effect all of whose rows decline makes the run
\* fail, named in the error, with nothing sent.
C13_OnlyDecliningNamedFails ==
    (CameToFilter /\ FlagInEffect # EmptyStr) =>
        LET missing == NewEmailSet(FlagInEffect)
                           \ Addresses(orig, Attending(orig))
        IN  /\ \A a \in missing : FailsNaming(a, FlagInEffect)
            /\ missing # {} => err.msg = EmailSetString(missing)
            /\ missing = {} => Validated

\* -emails asked for b alone, b is in the file on a declining row only,
\* and the run failed naming b.
C13_Witness ==
    /\ fEmails = <<"b">>
    /\ FailsNaming(<<"b">>, fEmails)
    /\ err.msg = <<"b">>
    /\ <<"b">> \in DecliningAddresses(orig)
    /\ <<"b">> \notin Addresses(orig, Attending(orig))

=============================================================================
